---- MODULE Spec2Model ----
(***************************************************************************)
(* Model of src/widgets/registration.ts of incremental-everything: the     *)
(* registration of the plugin's powerups and settings with the RemNote     *)
(* host, the host's settings store those registrations configure, and the  *)
(* scheduler components (interval growth, priority inheritance) that read  *)
(* that configuration.                                                     *)
(***************************************************************************)
EXTENDS Integers, Sequences, FiniteSets, TLC

VARIABLES
    pupc,          \* registerPowerups: position in the function body
    puIssued,      \* names of the registerPowerup calls issued so far, in order
    powerups,      \* the host's powerup registry (set of registered powerups)
    puError,       \* TRUE once a rejection has propagated out of registerPowerups
    rspc,          \* registerSettings: index of the next statement, or a label
    inflight,      \* setting ids whose (un-awaited) registration has not completed
    registered,    \* ids of the settings whose registration the host completed
    stored,        \* the host's settings store: id -> user value or Undefined
    shouldHide,    \* the local `shouldHide` of registerSettings
    readSawReg,    \* whether hideCardPriorityTag was registered when the read was served
    cssCalls,      \* ids passed to registerCSS, in call order
    edits,         \* number of user edits made in the settings UI
    lastAttempt,   \* the last user edit: [id, value, accepted]
    parentId,      \* node -> enclosing node, or NoParent
    explicitPriority, \* node -> priority set on the node, or Undefined
    effCache,      \* node -> memoized effectivePriority, or Undefined
    history,       \* node -> repetitionHistory: sequence of [at, interval]
    nextDueAt,     \* node -> next due time in days, or Undefined
    now,           \* the clock, in days
    lastError      \* error kind returned by the last scheduler operation

vars == <<pupc, puIssued, powerups, puError, rspc, inflight, registered, stored,
          shouldHide, readSawReg, cssCalls, edits, lastAttempt,
          parentId, explicitPriority, effCache, history, nextDueAt, now, lastError>>

pluginVars == <<pupc, puIssued, powerups, puError, rspc, inflight, registered, stored,
                shouldHide, readSawReg, cssCalls, edits, lastAttempt>>
hierarchyVars == <<parentId, explicitPriority, effCache>>
repetitionVars == <<history, nextDueAt, now>>
schedVars == <<hierarchyVars, repetitionVars, lastError>>

-----------------------------------------------------------------------------
(* JavaScript values.  Numbers are exact rationals n/d in lowest terms     *)
(* with d > 0; every number the model handles is exactly representable as  *)
(* an IEEE double, so the arithmetic below is the arithmetic of the code.  *)

RECURSIVE Gcd(_, _)
Gcd(a, b) == IF b = 0 THEN a ELSE Gcd(b, a % b)

Abs(x) == IF x < 0 THEN -x ELSE x

Num(n, d) ==
    LET g == Gcd(Abs(n), d)
    IN  [t |-> "num", n |-> n \div g, d |-> d \div g]

IntNum(n) == Num(n, 1)
Bool(b) == [t |-> "bool", b |-> b]
Str(s) == [t |-> "str", s |-> s]
Undefined == [t |-> "undefined"]

NumMul(x, y) == Num(x.n * y.n, x.d * y.d)
NumAdd(x, y) == Num(x.n * y.d + y.n * x.d, x.d * y.d)
NumLeq(x, y) == x.n * y.d <= y.n * x.d
NumLt(x, y) == x.n * y.d < y.n * x.d
IsInteger(x) == x.d = 1

\* JavaScript truthiness, as used by `if (shouldHide)`.
Truthy(v) ==
    CASE v.t = "bool" -> v.b
      [] v.t = "num" -> v.n # 0
      [] v.t = "str" -> v.s # ""
      [] OTHER -> FALSE

-----------------------------------------------------------------------------
(* registerPowerups: the two powerup definitions.                          *)

Slot(code, name, hidden) == [code |-> code, name |-> name, hidden |-> hidden]

IncrementalPowerup ==
    [name |-> "Incremental", code |-> "powerupCode",
     slots |-> << Slot("prioritySlotCode", "Priority", FALSE),
                  Slot("nextRepDateSlotCode", "Next Rep Date", FALSE),
                  Slot("repHistorySlotCode", "History", TRUE) >>]

\* CardPriority with its lastUpdated slot left visible.
CardPriorityPowerupAllVisible ==
    [name |-> "CardPriority", code |-> "cardPriority",
     slots |-> << Slot("priority", "Priority", FALSE),
                  Slot("prioritySource", "Priority Source", FALSE),
                  Slot("lastUpdated", "Last Updated", FALSE) >>]

CardPriorityPowerup ==
    [name |-> "CardPriority", code |-> "cardPriority",
     slots |-> << Slot("priority", "Priority", FALSE),
                  Slot("prioritySource", "Priority Source", FALSE),
                  Slot("lastUpdated", "Last Updated", TRUE) >>]

\* The powerup registered by the k-th registerPowerup call of registerPowerups.
PowerupCalls == << IncrementalPowerup, CardPriorityPowerup >>

-----------------------------------------------------------------------------
(* registerSettings: the twelve setting definitions, in statement order.   *)

NoValidators == << >>
NoOptions == << >>

\* The priority validators without the integer check.
PriorityValidatorsNoInt ==
    << [type |-> "gte", arg |-> IntNum(0)],
       [type |-> "lte", arg |-> IntNum(100)] >>

PriorityValidators ==
    << [type |-> "int", arg |-> IntNum(0)],
       [type |-> "gte", arg |-> IntNum(0)],
       [type |-> "lte", arg |-> IntNum(100)] >>

Option(key, value) == [key |-> key, value |-> value]

NumberSetting(id, default, validators) ==
    [id |-> id, kind |-> "number", defaultValue |-> default,
     validators |-> validators, options |-> NoOptions]

BooleanSetting(id, default) ==
    [id |-> id, kind |-> "boolean", defaultValue |-> Bool(default),
     validators |-> NoValidators, options |-> NoOptions]

DropdownSetting(id, default, options) ==
    [id |-> id, kind |-> "dropdown", defaultValue |-> Str(default),
     validators |-> NoValidators, options |-> options]

InitialIntervalSetting == NumberSetting("initialIntervalId", IntNum(1), NoValidators)

\* The multiplier registered with its default truncated to a whole number.
MultiplierSettingTruncated == NumberSetting("multiplierId", IntNum(1), NoValidators)

MultiplierSetting == NumberSetting("multiplierId", Num(3, 2), NoValidators)

DefaultPrioritySetting ==
    NumberSetting("defaultPriorityId", IntNum(10), PriorityValidators)

\* The card priority registered with the default of the incremental one.
DefaultCardPrioritySettingCopied ==
    NumberSetting("defaultCardPriority", IntNum(10), PriorityValidators)

DefaultCardPrioritySetting ==
    NumberSetting("defaultCardPriority", IntNum(50), PriorityValidators)

\* performanceMode registered with a third option.
PerformanceModeSettingThree ==
    DropdownSetting("performanceMode", "light",
                    << Option("full", "full"), Option("medium", "medium"),
                       Option("light", "light") >>)

PerformanceModeSetting ==
    DropdownSetting("performanceMode", "light",
                    << Option("full", "full"), Option("light", "light") >>)

HideCardPriorityTagSetting == BooleanSetting("hideCardPriorityTag", TRUE)

SettingCalls ==
    << InitialIntervalSetting,
       MultiplierSetting,
       BooleanSetting("collapseQueueTopBar", TRUE),
       HideCardPriorityTagSetting,
       DefaultPrioritySetting,
       DefaultCardPrioritySetting,
       PerformanceModeSetting,
       BooleanSetting("alwaysUseLightModeOnMobileId", TRUE),
       BooleanSetting("alwaysUseLightModeOnWebId", TRUE),
       BooleanSetting("displayPriorityShieldId", TRUE),
       DropdownSetting("priorityEditorDisplayMode", "all",
                       << Option("all", "all"), Option("incRemOnly", "incRemOnly"),
                          Option("disable", "disable") >>),
       DropdownSetting("remnoteEnvironmentId", "www",
                       << Option("beta", "beta"), Option("www", "www") >>) >>

SettingIds == { SettingCalls[i].id : i \in DOMAIN SettingCalls }

SettingDef(id) ==
    SettingCalls[CHOOSE i \in DOMAIN SettingCalls : SettingCalls[i].id = id]

hideCardPriorityTagId == "hide-card-priority-tag"

\* The registerCSS call made unconditionally.
ShouldRegisterCSSAlways(v) == TRUE

\* The condition of the `if` that guards the registerCSS call.
ShouldRegisterCSS(v) == Truthy(v)

-----------------------------------------------------------------------------
(* The host's settings store, as configured by the registrations.          *)

\* One validator of a number setting: { type: "int" | "gte" | "lte", arg }.
CheckValidator(val, v) ==
    CASE val.type = "int" -> IsInteger(v)
      [] val.type = "gte" -> NumLeq(val.arg, v)
      [] val.type = "lte" -> NumLeq(v, val.arg)
      [] OTHER -> TRUE

OptionValues(def) == { def.options[i].value : i \in DOMAIN def.options }

\* Whether the settings UI stores value v for the setting registered as def.
Accepts(def, v) ==
    CASE def.kind = "number" ->
            /\ v.t = "num"
            /\ \A i \in DOMAIN def.validators : CheckValidator(def.validators[i], v)
      [] def.kind = "boolean" -> v.t = "bool"
      [] def.kind = "dropdown" -> v.t = "str" /\ v.s \in OptionValues(def)
      [] OTHER -> FALSE

\* The values getSetting(id) may resolve to: the stored value if there is
\* one, else the registered default; a setting the host does not know yet
\* has no default, and may or may not be looked up in the store.
HostGetSetting(id) ==
    IF id \in registered
    THEN { IF stored[id] # Undefined THEN stored[id] ELSE SettingDef(id).defaultValue }
    ELSE { Undefined, stored[id] }

-----------------------------------------------------------------------------
(* The scheduler's corpus.                                                 *)

MaxNodes == 3      \* nodes in the corpus
NoParent == 0      \* parentId of a root

Nodes == 1..MaxNodes

\* A node's kind is fixed at creation; the corpus alternates the two kinds.
KindOf(n) == IF n % 2 = 1 THEN "Incremental" ELSE "Flashcard"

\* No node has any scheduling state yet.
SchedIdle ==
    /\ parentId = [n \in Nodes |-> NoParent]
    /\ explicitPriority = [n \in Nodes |-> Undefined]
    /\ effCache = [n \in Nodes |-> Undefined]
    /\ history = [n \in Nodes |-> << >>]
    /\ nextDueAt = [n \in Nodes |-> Undefined]
    /\ now = 0
    /\ lastError = "none"

-----------------------------------------------------------------------------
(* Positions in registerSettings after the registration statements.        *)

AtGetSetting == Len(SettingCalls) + 1   \* const shouldHide = await getSetting(..)
AtIf == AtGetSetting + 1                \* if (shouldHide)
AtAwaitCSS == AtIf + 1                  \* await registerCSS(..)
Returned == AtAwaitCSS + 1

PuCall(k) == [op |-> "call", k |-> k]
PuAwait(k) == [op |-> "await", k |-> k]
PuDone == [op |-> "done", k |-> Len(PowerupCalls)]
PuFailed(k) == [op |-> "failed", k |-> k]

NoAttempt == [id |-> "", value |-> Undefined, accepted |-> FALSE]

NoStored == [id \in SettingIds |-> Undefined]

\* A fresh activation of the plugin; the store may hold a value of
\* hideCardPriorityTag saved in an earlier session.
Init ==
    /\ pupc = PuCall(1)
    /\ puIssued = << >>
    /\ powerups = {}
    /\ puError = FALSE
    /\ rspc = 1
    /\ inflight = {}
    /\ registered = {}
    /\ \E h \in {Undefined, Bool(TRUE), Bool(FALSE)} :
          stored = [NoStored EXCEPT !["hideCardPriorityTag"] = h]
    /\ shouldHide = Undefined
    /\ readSawReg = FALSE
    /\ cssCalls = << >>
    /\ edits = 0
    /\ lastAttempt = NoAttempt
    /\ SchedIdle

settingsVars == <<rspc, inflight, registered, stored, shouldHide, readSawReg, cssCalls>>
powerupVars == <<pupc, puIssued, powerups, puError>>
uiVars == <<edits, lastAttempt>>

-----------------------------------------------------------------------------
(* registerPowerups                                                        *)

\* plugin.app.registerPowerup({...}) is called.
PowerupCall ==
    /\ pupc.op = "call"
    /\ puIssued' = Append(puIssued, PowerupCalls[pupc.k].name)
    /\ pupc' = PuAwait(pupc.k)
    /\ UNCHANGED <<powerups, puError, settingsVars, uiVars, schedVars>>

\* The awaited registration resolves: the host has registered the powerup.
PowerupResolve ==
    /\ pupc.op = "await"
    /\ powerups' = powerups \cup {PowerupCalls[pupc.k]}
    /\ pupc' = IF pupc.k = Len(PowerupCalls) THEN PuDone ELSE PuCall(pupc.k + 1)
    /\ UNCHANGED <<puIssued, puError, settingsVars, uiVars, schedVars>>

\* The rejection caught and ignored: registerPowerups carries on.
PowerupRejectSwallowed ==
    /\ pupc.op = "await"
    /\ pupc' = IF pupc.k = Len(PowerupCalls) THEN PuDone ELSE PuCall(pupc.k + 1)
    /\ puError' = FALSE
    /\ UNCHANGED <<puIssued, powerups, settingsVars, uiVars, schedVars>>

\* The awaited registration rejects: the await throws out of registerPowerups.
PowerupReject ==
    /\ pupc.op = "await"
    /\ pupc' = PuFailed(pupc.k)
    /\ puError' = TRUE
    /\ UNCHANGED <<puIssued, powerups, settingsVars, uiVars, schedVars>>

-----------------------------------------------------------------------------
(* registerSettings                                                        *)

\* plugin.settings.register*Setting({...}) is called and not awaited.
RegisterSettingCall ==
    /\ rspc \in DOMAIN SettingCalls
    /\ inflight' = inflight \cup {SettingCalls[rspc].id}
    /\ rspc' = rspc + 1
    /\ UNCHANGED <<registered, stored, shouldHide, readSawReg, cssCalls,
                   powerupVars, uiVars, schedVars>>

\* The host completes a registration that is in flight.
HostCompleteRegistration ==
    \E id \in inflight :
        /\ inflight' = inflight \ {id}
        /\ registered' = registered \cup {id}
        /\ UNCHANGED <<rspc, stored, shouldHide, readSawReg, cssCalls,
                       powerupVars, uiVars, schedVars>>

\* const shouldHide = await plugin.settings.getSetting('hideCardPriorityTag')
GetSettingResolve ==
    /\ rspc = AtGetSetting
    /\ shouldHide' \in HostGetSetting("hideCardPriorityTag")
    /\ readSawReg' = ("hideCardPriorityTag" \in registered)
    /\ rspc' = AtIf
    /\ UNCHANGED <<inflight, registered, stored, cssCalls, powerupVars, uiVars, schedVars>>

\* if (shouldHide) { await plugin.app.registerCSS(id, css) }
IfShouldHide ==
    /\ rspc = AtIf
    /\ IF ShouldRegisterCSS(shouldHide)
       THEN /\ cssCalls' = Append(cssCalls, hideCardPriorityTagId)
            /\ rspc' = AtAwaitCSS
       ELSE /\ cssCalls' = cssCalls
            /\ rspc' = Returned
    /\ UNCHANGED <<inflight, registered, stored, shouldHide, readSawReg,
                   powerupVars, uiVars, schedVars>>

\* The awaited registerCSS resolves and registerSettings returns.
RegisterCSSResolve ==
    /\ rspc = AtAwaitCSS
    /\ rspc' = Returned
    /\ UNCHANGED <<inflight, registered, stored, shouldHide, readSawReg, cssCalls,
                   powerupVars, uiVars, schedVars>>

Next ==
    \/ PowerupCall
    \/ PowerupResolve
    \/ PowerupReject
    \/ RegisterSettingCall
    \/ HostCompleteRegistration
    \/ GetSettingResolve
    \/ IfShouldHide
    \/ RegisterCSSResolve

Spec == Init /\ [][Next]_vars

-----------------------------------------------------------------------------
(* The settings UI, once the plugin is activated.                          *)

MaxEdits == 2      \* user edits explored per behaviour
Span == 3          \* half-steps explored on either side of each pivot number

\* Numbers a user may type: half-steps around 0 and 100, the edges of the ranges.
NumberInputs ==
    { NumAdd(IntNum(pivot), Num(k, 2)) : pivot \in {0, 100}, k \in (-Span)..Span }

StringInputs == { Str(s) : s \in {"full", "light", "all", "beta", "medium", ""} }

Inputs == NumberInputs \cup StringInputs \cup {Bool(TRUE), Bool(FALSE)}

\* The state a first activation ends in when every registration has completed.
SettingsInit ==
    /\ pupc = PuDone
    /\ puIssued = << "Incremental", "CardPriority" >>
    /\ powerups = { IncrementalPowerup, CardPriorityPowerup }
    /\ puError = FALSE
    /\ rspc = Returned
    /\ inflight = {}
    /\ registered = SettingIds
    /\ stored = NoStored
    /\ shouldHide = Bool(TRUE)
    /\ readSawReg = TRUE
    /\ cssCalls = << hideCardPriorityTagId >>
    /\ edits = 0
    /\ lastAttempt = NoAttempt
    /\ SchedIdle

\* The user submits value v for setting id; the host stores it if the
\* setting's registration accepts it.
UserSetSetting ==
    \E id \in registered, v \in Inputs :
        /\ edits < MaxEdits
        /\ v.t = SettingDef(id).defaultValue.t
        /\ LET ok == Accepts(SettingDef(id), v)
           IN  /\ stored' = IF ok THEN [stored EXCEPT ![id] = v] ELSE stored
               /\ lastAttempt' = [id |-> id, value |-> v, accepted |-> ok]
        /\ edits' = edits + 1
        /\ UNCHANGED <<rspc, inflight, registered, shouldHide, readSawReg, cssCalls,
                       powerupVars, schedVars>>

SettingsNext == UserSetSetting

SettingsSpec == SettingsInit /\ [][SettingsNext]_vars

-----------------------------------------------------------------------------
(* Properties of the registration and of the settings store.               *)

IntervalIds == { "initialIntervalId", "multiplierId" }
PriorityIds == { "defaultPriorityId", "defaultCardPriority" }

IsPositive(v) == v.t = "num" /\ v.n > 0

\* C1: every attempt to set initialInterval or multiplier to a value <= 0 is
\* rejected, so the stored value of either setting is always > 0.
C1_NonPositiveIntervalRejected ==
    /\ \A id \in IntervalIds : stored[id] # Undefined => IsPositive(stored[id])
    /\ (lastAttempt.id \in IntervalIds /\ ~IsPositive(lastAttempt.value))
          => ~lastAttempt.accepted

InPriorityRange(v) == v.t = "num" /\ v.d = 1 /\ 0 <= v.n /\ v.n <= 100

\* C2: each default-priority setting accepts a value if and only if it is an
\* integer in [0, 100]; non-integers, values < 0 and values > 100 are rejected.
C2_PriorityAcceptedIffIntInRange ==
    /\ \A id \in PriorityIds : stored[id] # Undefined => InPriorityRange(stored[id])
    /\ lastAttempt.id \in PriorityIds
          => (lastAttempt.accepted <=> InPriorityRange(lastAttempt.value))

C2_Witness ==
    /\ stored["defaultPriorityId"] = IntNum(100)
    /\ lastAttempt = [id |-> "defaultCardPriority", value |-> Num(1, 2),
                      accepted |-> FALSE]

UserChangedNothing(id) == stored[id] = Undefined

\* C3: once a setting is registered and the user has changed nothing, reading
\* it yields 1 for the initial interval, 1.5 for the multiplier, 10 for the
\* default priority and 50 for the default card priority.
C3_RegisteredDefaults ==
    /\ ("initialIntervalId" \in registered /\ UserChangedNothing("initialIntervalId"))
          => HostGetSetting("initialIntervalId") = { Num(1, 1) }
    /\ ("multiplierId" \in registered /\ UserChangedNothing("multiplierId"))
          => HostGetSetting("multiplierId") = { Num(3, 2) }
    /\ ("defaultPriorityId" \in registered /\ UserChangedNothing("defaultPriorityId"))
          => HostGetSetting("defaultPriorityId") = { Num(10, 1) }
    /\ ("defaultCardPriority" \in registered /\ UserChangedNothing("defaultCardPriority"))
          => HostGetSetting("defaultCardPriority") = { Num(50, 1) }
    /\ (rspc = Returned /\ inflight = {})
          => (IntervalIds \cup PriorityIds) \subseteq registered

C3_Witness ==
    /\ rspc = Returned
    /\ (IntervalIds \cup PriorityIds) \subseteq registered
    /\ \A id \in IntervalIds \cup PriorityIds : UserChangedNothing(id)

PerformanceModes == { Str("full"), Str("light") }

\* C4: the performanceMode setting only ever holds 'full' or 'light': its
\* options are exactly those two, each option's key equals its value, and
\* its default is one of them.
C4_PerformanceModeTwoValued ==
    /\ "performanceMode" \in registered
          => /\ HostGetSetting("performanceMode") \subseteq PerformanceModes
             /\ { Str(x) : x \in OptionValues(SettingDef("performanceMode")) }
                   = PerformanceModes
             /\ \A i \in DOMAIN SettingDef("performanceMode").options :
                   SettingDef("performanceMode").options[i].key
                      = SettingDef("performanceMode").options[i].value
             /\ SettingDef("performanceMode").defaultValue \in PerformanceModes
    /\ lastAttempt.id = "performanceMode"
          => (lastAttempt.accepted <=> lastAttempt.value \in PerformanceModes)

C4_Witness ==
    /\ stored["performanceMode"] = Str("full")
    /\ lastAttempt = [id |-> "performanceMode", value |-> Str("medium"),
                      accepted |-> FALSE]

\* C7: registerCSS is called, once and with id 'hide-card-priority-tag',
\* exactly when the startup read of hideCardPriorityTag is truthy, and never
\* before that read.
C7_CSSIffSettingTruthy ==
    /\ cssCalls # << >>
          => /\ rspc >= AtAwaitCSS
             /\ Truthy(shouldHide)
             /\ cssCalls = << hideCardPriorityTagId >>
    /\ rspc >= AtAwaitCSS
          => (Truthy(shouldHide) <=> cssCalls = << hideCardPriorityTagId >>)

C7_Witness ==
    /\ rspc = Returned
    /\ stored["hideCardPriorityTag"] = Bool(TRUE)
    /\ cssCalls = << hideCardPriorityTagId >>

SlotNames(p) == [i \in DOMAIN p.slots |-> p.slots[i].name]
SlotCodes(p) == [i \in DOMAIN p.slots |-> p.slots[i].code]
HiddenSlots(p) == { i \in DOMAIN p.slots : p.slots[i].hidden }

\* C8: a successful run of registerPowerups registers exactly two powerups:
\* 'Incremental' with the slots Priority, Next Rep Date, History (History
\* hidden) and 'CardPriority' with the slots priority, prioritySource,
\* lastUpdated (lastUpdated hidden).
C8_ExactlyTwoPowerups ==
    pupc = PuDone =>
        /\ Cardinality(powerups) = 2
        /\ \E inc, card \in powerups :
              /\ inc.name = "Incremental"
              /\ SlotNames(inc) = << "Priority", "Next Rep Date", "History" >>
              /\ HiddenSlots(inc) = {3}
              /\ card.name = "CardPriority"
              /\ SlotCodes(card) = << "priority", "prioritySource", "lastUpdated" >>
              /\ HiddenSlots(card) = {3}

C8_Witness == pupc = PuDone /\ Cardinality(powerups) = 2

\* C9: the startup read of hideCardPriorityTag is served only after that
\* setting's registration has completed, so a first run with no stored value
\* reads the default true and registers the hide CSS.
C9_ReadAfterRegistration ==
    rspc >= AtIf =>
        /\ readSawReg
        /\ stored["hideCardPriorityTag"] = Undefined
              => /\ shouldHide = Bool(TRUE)
                 /\ rspc >= AtAwaitCSS => cssCalls = << hideCardPriorityTagId >>

\* C10: the CardPriority registration is issued only after the Incremental
\* one succeeded; if the Incremental one fails, CardPriority is never issued
\* and the failure propagates; registerPowerups completes only after both
\* registrations have completed.
C10_SequentialPowerups ==
    /\ (\E i \in DOMAIN puIssued : puIssued[i] = "CardPriority")
          => IncrementalPowerup \in powerups
    /\ pupc = PuFailed(1) => (puIssued = << "Incremental" >> /\ puError)
    /\ pupc.op = "failed" <=> puError
    /\ pupc = PuDone
          => /\ { IncrementalPowerup, CardPriorityPowerup } \subseteq powerups
             /\ puIssued = << "Incremental", "CardPriority" >>

C10_Witness == pupc = PuFailed(1) /\ puError /\ powerups = {}

-----------------------------------------------------------------------------
(* Configuration consumed by the scheduler: the settings as the host       *)
(* returns them after activation.                                          *)

\* Settings a user may have saved before the scheduler starts.
UserStoredSound ==
    [NoStored EXCEPT !["initialIntervalId"] = Num(1, 2),
                     !["multiplierId"] = Num(3, 1),
                     !["defaultPriorityId"] = IntNum(100),
                     !["defaultCardPriority"] = IntNum(0)]

UserStoredDegenerate ==
    [NoStored EXCEPT !["multiplierId"] = Num(-1, 2),
                     !["defaultPriorityId"] = IntNum(1)]

\* Those of the given stores that the registered settings let a user save.
Savable(stores) ==
    { st \in stores :
        \A id \in SettingIds : st[id] # Undefined => Accepts(SettingDef(id), st[id]) }

\* The plugin is activated, the settings are as the user left them.
Activated(stores) ==
    /\ pupc = PuDone
    /\ puIssued = << "Incremental", "CardPriority" >>
    /\ powerups = { IncrementalPowerup, CardPriorityPowerup }
    /\ puError = FALSE
    /\ rspc = Returned
    /\ inflight = {}
    /\ registered = SettingIds
    /\ stored \in Savable(stores)
    /\ shouldHide = Bool(TRUE)
    /\ readSawReg = TRUE
    /\ cssCalls = << hideCardPriorityTagId >>
    /\ edits = 0
    /\ lastAttempt = NoAttempt

Config(id) == CHOOSE v \in HostGetSetting(id) : TRUE

initialInterval == Config("initialIntervalId")
multiplier == Config("multiplierId")

\* The configured default priority for a node's kind.
DefaultPriority(kind) ==
    IF kind = "Incremental"
    THEN Config("defaultPriorityId")
    ELSE Config("defaultCardPriority")

-----------------------------------------------------------------------------
(* Hierarchy Propagation Engine and the Priority Store's priorities.       *)

\* Walk parentId links upward from cur on behalf of node n, with a visited set.
RECURSIVE Walk(_, _, _)
Walk(n, cur, visited) ==
    IF cur = NoParent THEN DefaultPriority(KindOf(n))
    ELSE IF cur \in visited THEN DefaultPriority(KindOf(n))   \* CyclicHierarchy
    ELSE IF explicitPriority[cur] # Undefined THEN explicitPriority[cur]
    ELSE Walk(n, parentId[cur], visited \cup {cur})

Resolve(n) ==
    IF explicitPriority[n] # Undefined
    THEN explicitPriority[n]
    ELSE Walk(n, parentId[n], {n})

\* effectivePriority as a query sees it: the memoized value, else resolved.
EffectivePriority(n) ==
    IF effCache[n] # Undefined THEN effCache[n] ELSE Resolve(n)

Children(id) == { m \in Nodes : parentId[m] = id }

RECURSIVE Reach(_, _)
Reach(frontier, seen) ==
    LET next == (UNION { Children(x) : x \in frontier }) \ seen
    IN  IF next = {} THEN seen ELSE Reach(next, seen \cup next)

\* Invalidation that stops at the direct children.
SubtreeShallow(id) == {id} \cup Children(id)

\* The subtree rooted at id: id and its descendants, transitively.
Subtree(id) == Reach({id}, {id})

PriorityInputs == { IntNum(20), IntNum(30), IntNum(101), Undefined }

ValidPriority(v) == v = Undefined \/ (IsInteger(v) /\ 0 <= v.n /\ v.n <= 100)

\* The corpus as tagged by the collaborator: any parent relation, cycles
\* included, on nodes that have no scheduling state yet.
HierarchyInit ==
    /\ Activated({ NoStored })
    /\ parentId \in [Nodes -> Nodes \cup {NoParent}]
    /\ \A n \in Nodes : parentId[n] # n
    /\ explicitPriority = [n \in Nodes |-> Undefined]
    /\ effCache = [n \in Nodes |-> Undefined]
    /\ history = [n \in Nodes |-> << >>]
    /\ nextDueAt = [n \in Nodes |-> Undefined]
    /\ now = 0
    /\ lastError = "none"

\* setExplicitPriority(id, value) / setPriority(id, null): a value outside
\* [0, 100] is rejected with InvalidRange and the prior state is left intact.
SetExplicitPriority ==
    \E id \in Nodes, value \in PriorityInputs :
        IF ValidPriority(value)
        THEN /\ explicitPriority' = [explicitPriority EXCEPT ![id] = value]
             /\ effCache' = [m \in Nodes |->
                               IF m \in Subtree(id) THEN Undefined ELSE effCache[m]]
             /\ UNCHANGED <<parentId, repetitionVars, lastError, pluginVars>>
        ELSE UNCHANGED vars

\* A query resolves a node's effectivePriority and memoizes it.
ResolvePriority ==
    \E n \in Nodes :
        /\ effCache[n] = Undefined
        /\ effCache' = [effCache EXCEPT ![n] = Resolve(n)]
        /\ UNCHANGED <<parentId, explicitPriority, repetitionVars, lastError, pluginVars>>

HierarchyNext == SetExplicitPriority \/ ResolvePriority

HierarchySpec == HierarchyInit /\ [][HierarchyNext]_vars

\* The ancestor of n at distance k along parentId, or NoParent.
RECURSIVE Ancestor(_, _)
Ancestor(n, k) ==
    IF k = 0 THEN n
    ELSE IF Ancestor(n, k - 1) = NoParent THEN NoParent
    ELSE parentId[Ancestor(n, k - 1)]

HasPriorityAt(n, k) ==
    Ancestor(n, k) # NoParent /\ explicitPriority[Ancestor(n, k)] # Undefined

\* The priority the data model prescribes for n, read off the hierarchy.
PrescribedPriority(n) ==
    IF \E k \in 0..MaxNodes : HasPriorityAt(n, k)
    THEN LET k == CHOOSE j \in 0..MaxNodes :
                    HasPriorityAt(n, j) /\ \A i \in 0..(j - 1) : ~HasPriorityAt(n, i)
         IN  explicitPriority[Ancestor(n, k)]
    ELSE IF KindOf(n) = "Incremental"
         THEN CHOOSE v \in HostGetSetting("defaultPriorityId") : TRUE
         ELSE CHOOSE v \in HostGetSetting("defaultCardPriority") : TRUE

\* C6: every node's effectivePriority is its explicitPriority when present,
\* otherwise that of the nearest ancestor that has one, otherwise the
\* configured default priority for the node's kind, at every depth.
C6_EffectivePriorityInherited ==
    \A n \in Nodes :
        /\ EffectivePriority(n) = PrescribedPriority(n)
        /\ effCache[n] # Undefined => effCache[n] = PrescribedPriority(n)

\* A memoized grandchild inherits from its parent although the grandparent
\* has a priority too.
C6_Witness ==
    \E n \in Nodes :
        /\ explicitPriority[n] = Undefined
        /\ HasPriorityAt(n, 1) /\ HasPriorityAt(n, 2)
        /\ Ancestor(n, 2) # n
        /\ explicitPriority[Ancestor(n, 1)] # explicitPriority[Ancestor(n, 2)]
        /\ effCache[n] = explicitPriority[Ancestor(n, 1)]

-----------------------------------------------------------------------------
(* Interval Scheduler and the Priority Store's repetition records.         *)

MaxReviewed == 1   \* nodes that are put through repetitions
MaxNow == 4        \* last day of the clock

Reviewed == 1..MaxReviewed

IntervalInit ==
    /\ Activated({ NoStored, UserStoredSound, UserStoredDegenerate })
    /\ SchedIdle

\* A day passes.
Tick ==
    /\ now < MaxNow
    /\ now' = now + 1
    /\ UNCHANGED <<history, nextDueAt, lastError, hierarchyVars, pluginVars>>

\* newInterval = previousInterval.isAbsent() ? initialInterval
\*                                           : previousInterval * multiplier
NewInterval(h) ==
    IF h = << >> THEN initialInterval ELSE NumMul(h[Len(h)].interval, multiplier)

\* completeRepetition(id, now): compute the interval, record the repetition
\* and move nextDueAt; InvalidInterval and OutOfOrder leave the node untouched.
CompleteRepetition ==
    \E id \in Reviewed :
        LET h == history[id]
            newInterval == NewInterval(h)
        IN  IF ~NumLt(IntNum(0), newInterval)
            THEN /\ lastError' = "InvalidInterval"
                 /\ UNCHANGED <<repetitionVars, hierarchyVars, pluginVars>>
            ELSE IF h # << >> /\ now <= h[Len(h)].at
            THEN /\ lastError' = "OutOfOrder"
                 /\ UNCHANGED <<repetitionVars, hierarchyVars, pluginVars>>
            ELSE /\ history' = [history EXCEPT
                                  ![id] = Append(h, [at |-> now, interval |-> newInterval])]
                 /\ nextDueAt' = [nextDueAt EXCEPT
                                    ![id] = NumAdd(IntNum(now), newInterval)]
                 /\ lastError' = "none"
                 /\ UNCHANGED <<now, hierarchyVars, pluginVars>>

IntervalNext == Tick \/ CompleteRepetition

IntervalSpec == IntervalInit /\ [][IntervalNext]_vars

\* x * y = z on exact fractions.
IsProduct(x, y, z) == x.n * y.n * z.d = z.n * x.d * y.d

\* day + x = z on exact fractions.
IsDaysAfter(day, x, z) == (day * x.d + x.n) * z.d = z.n * x.d

ReadNumber(id) == IF stored[id] # Undefined THEN stored[id] ELSE SettingDef(id).defaultValue

DefaultGrowth ==
    << [t |-> "num", n |-> 1, d |-> 1], [t |-> "num", n |-> 3, d |-> 2],
       [t |-> "num", n |-> 9, d |-> 4], [t |-> "num", n |-> 27, d |-> 8] >>

\* C5: the interval of a first repetition is initialInterval, that of a later
\* one is the previous interval times the multiplier, and nextDueAt is the
\* repetition time plus that interval in days; with the registered defaults
\* the first four intervals are 1, 1.5, 2.25, 3.375, untruncated.
C5_IntervalGrowth ==
    \A id \in Nodes :
        LET h == history[id]
        IN  /\ \A i \in DOMAIN h :
                 /\ i = 1 => h[i].interval = ReadNumber("initialIntervalId")
                 /\ i > 1 => IsProduct(h[i - 1].interval, ReadNumber("multiplierId"),
                                       h[i].interval)
                 /\ (stored = NoStored /\ i \in DOMAIN DefaultGrowth)
                       => h[i].interval = DefaultGrowth[i]
            /\ h # << >> => IsDaysAfter(h[Len(h)].at, h[Len(h)].interval, nextDueAt[id])
            /\ h = << >> => nextDueAt[id] = Undefined

C5_Witness ==
    \E id \in Nodes :
        /\ stored = NoStored
        /\ Len(history[id]) = 4
        /\ history[id][4].interval = [t |-> "num", n |-> 27, d |-> 8]
        /\ nextDueAt[id] = [t |-> "num", n |-> 51, d |-> 8]

====
